---------------------------- MODULE Spec2Model ----------------------------
(***************************************************************************)
(* Model of src/src/source-record-async.c: the asynchronous source-record  *)
(* filter.  One controller thread (async_record_thread) runs the           *)
(* start / drain / close loop; the host calls update, tick, filter_video,  *)
(* filter_remove and destroy; the output backend raises "stop".            *)
(***************************************************************************)
EXTENDS Integers, Sequences, FiniteSets, TLC

(***************************************************************************)
(* uint64_t arithmetic.  A uint64_t is the sequence of its 16 hexadecimal  *)
(* digits, most significant first, so that the wrap at 2^64 and the cast   *)
(* to a 32-bit int are computed at the width the program has.              *)
(***************************************************************************)
Digits64 == 16

DigitsInt == 8

Hex == 0 .. 15

Pow16(k) == IF k = 0 THEN 1 ELSE IF k = 1 THEN 16 ELSE IF k = 2 THEN 256
            ELSE IF k = 3 THEN 4096 ELSE IF k = 4 THEN 65536
            ELSE IF k = 5 THEN 1048576 ELSE IF k = 6 THEN 16777216
            ELSE 268435456

\* The uint64_t with value n, for 0 <= n < 2^31.
U64(n) == [i \in 1 .. Digits64 |->
             IF Digits64 - i >= DigitsInt THEN 0
             ELSE (n \div Pow16(Digits64 - i)) % 16]

Zero64 == U64(0)

\* The digits 1 .. i of a + b + carry, the carry running from digit i up.
RECURSIVE AddDigits(_, _, _, _)
AddDigits(a, b, i, carry) ==
    IF i = 0 THEN <<>>
    ELSE LET t == a[i] + b[i] + carry
         IN  Append(AddDigits(a, b, i - 1, t \div 16), t % 16)

\* a + b mod 2^64.
Add64(a, b) == AddDigits(a, b, Digits64, 0)

\* The digits 1 .. i of a - b - borrow.
RECURSIVE SubDigits(_, _, _, _)
SubDigits(a, b, i, borrow) ==
    IF i = 0 THEN <<>>
    ELSE LET t == a[i] - b[i] - borrow
         IN  Append(SubDigits(a, b, i - 1, IF t < 0 THEN 1 ELSE 0), (t + 16) % 16)

\* a - b mod 2^64 (unsigned subtraction wraps).
Sub64(a, b) == SubDigits(a, b, Digits64, 0)

\* The digits i .. 16 of the quotient, rem the remainder so far.
RECURSIVE DivDigits(_, _, _, _)
DivDigits(a, d, i, rem) ==
    IF i > Digits64 THEN <<>>
    ELSE LET t == rem * 16 + a[i]
         IN  <<t \div d>> \o DivDigits(a, d, i + 1, t % d)

\* a / d, unsigned, for a divisor 0 < d < 2^27.
Div64(a, d) == DivDigits(a, d, 1, 0)

\* The digits 1 .. i of a * m + carry.
RECURSIVE MulDigits(_, _, _, _)
MulDigits(a, m, i, carry) ==
    IF i = 0 THEN <<>>
    ELSE LET t == a[i] * m + carry
         IN  Append(MulDigits(a, m, i - 1, t \div 16), t % 16)

\* a * m mod 2^64, for 0 <= m < 2^27.
Mul64(a, m) == MulDigits(a, m, Digits64, 0)

\* a < b, unsigned.
Less64(a, b) ==
    \E i \in 1 .. Digits64 :
        /\ a[i] < b[i]
        /\ \A j \in 1 .. i - 1 : a[j] = b[j]

Leq64(a, b) == a = b \/ Less64(a, b)

\* (int)q: the low 32 bits of q read as a two's complement int.
CastInt(q) ==
    LET top == q[Digits64 - DigitsInt + 1]
        low[i \in Digits64 - DigitsInt + 1 .. Digits64] ==
            IF i = Digits64 - DigitsInt + 1 THEN 0
            ELSE low[i - 1] * 16 + q[i]
    IN  (IF top >= 8 THEN top - 16 ELSE top) * Pow16(DigitsInt - 1) + low[Digits64]

\* (uint64_t)c for an int c: the usual arithmetic conversion sign-extends.
FromInt(c) ==
    IF c >= 0 THEN U64(c)
    ELSE [i \in 1 .. Digits64 |-> 15 - U64(-(c + 1))[i]]   \* ~(|c| - 1)


(***************************************************************************)
(* The retiming arithmetic of send_video (lines 220-236): from             *)
(* last_video_ns, video_frame_interval and the frame's timestamp to the    *)
(* tick count, the advanced last_video_ns and the emission timestamp.      *)
(***************************************************************************)
\* A faulty TickCount: the quotient rounded up.
TickCountRoundUp(last, interval, ts) ==
    CastInt(Div64(Add64(Sub64(ts, last), U64(interval - 1)), interval))

TickCount(last, interval, ts) == CastInt(Div64(Sub64(ts, last), interval))

\* A faulty Advance: the count added without the period.
AdvanceUnscaled(last, interval, count) == Add64(last, FromInt(count))

Advance(last, interval, count) == Add64(last, Mul64(FromInt(count), interval))

\* A faulty Retime: no case for the first frame of a session.
RetimeNoFirst(last, interval, ts) ==
    [count |-> TickCount(last, interval, ts),
     last  |-> Advance(last, interval, TickCount(last, interval, ts)),
     ts    |-> Advance(last, interval, TickCount(last, interval, ts))]

Retime(last, interval, ts) ==
    IF last = Zero64
    THEN [count |-> 1, last |-> ts, ts |-> ts]
    ELSE LET count == TickCount(last, interval, ts)
             adv   == Advance(last, interval, count)
         IN  [count |-> count, last |-> adv, ts |-> adv]


(***************************************************************************)
(* Bounds of the model and the sets the inputs are drawn from.             *)
(***************************************************************************)
\* Frames the host delivers in a run of Spec / of SpecRetime.
MaxFrames == 2

\* Frames the host delivers in a run of FairSpec.
MaxLiveFrames == 1

MaxRetimeFrames == 3

\* Calls of update after create.
MaxUpdates == 1

Dirs == {"dirA", "dirB"}

Fmts == {"fmt"}

Exts == {"mkv"}

\* video_output_get_frame_time: the tick period in ns.
Intervals == {16670000}

\* Frame timestamps (ns) and obs_get_video_frame_time values.
TsLife == {U64(0), U64(16670000)}

ClockLife == {U64(16670000)}

\* 2^31 tick periods, where the tick count no longer fits an int.
Ticks31 == Mul64([i \in 1 .. Digits64 |->
                    IF i = Digits64 - DigitsInt + 1 THEN 8 ELSE 0], 16670000)

TsRetime == {U64(0), U64(16670000), U64(16700000), U64(33300000),
             U64(33340000), U64(50000000), U64(66680000), U64(83350000),
             Ticks31, Add64(Ticks31, U64(16670000))}

ClockRetime == {U64(0), U64(16670000)}

NoFrame == [id |-> 0, timestamp |-> Zero64]

(***************************************************************************)
(* State.                                                                  *)
(***************************************************************************)
VARIABLES
    \* struct async_record
    directory, filename_format, extension, overwrite_timestamp,
    video_frames, output, video_output, last_video_ns, video_frame_interval,
    state, enabled, need_restart, record, close, failed, output_stopped,
    \* the mutex and the controller thread
    mutex,          \* "free", "thread" or "tick"; other calls hold it within one step
    pc,             \* the controller's position
    filename,       \* thread_start_loop's filename (the "url" of data)
    frame,          \* the frame the controller peeked or popped
    new_output,     \* thread_start_loop's local output is a live handle
    \* the host's calls in progress
    host,           \* "live", "join" (destroy waits in pthread_join), "destroyed"
    tick_pc,        \* "idle", "lock" (async_record_tick passed its test), "flush"
    tick_old,       \* record as the tick in progress found it at line 469
    video_pc,       \* "idle", or "push": async_record_video copied a frame
    copied_frame,   \* the frame async_record_video is about to push
    nframes,        \* frames created so far
    nupdates,       \* calls of update so far
    \* the outside: sinks and outputs that exist, the backend, the frames
    sinks_open,     \* video sinks opened and not closed
    outputs_open,   \* outputs created and not released
    out_active,     \* the started output has not raised "stop" yet
    sink_stopped,   \* video_output_stopped(s->video_output)
    released,       \* ids of the frames destroyed
    double_free,    \* a frame was destroyed twice
    \* history
    enq,            \* ids pushed to video_frames, in order
    deq,            \* ids popped by thread_main_loop, in order
    flushed,        \* ids released by free_video_data
    sends,          \* send_video's calls in the current session
    fail_pending    \* a start failed or "stop" carried an error, and no
                    \* update changed the settings since

cfgVars == <<directory, filename_format, extension, overwrite_timestamp>>

flagVars == <<enabled, need_restart, record, close, failed, output_stopped>>

sessVars == <<output, video_output, last_video_ns, video_frame_interval, state>>

ctlVars == <<mutex, pc, filename, frame, new_output>>

hostVars == <<host, tick_pc, tick_old, video_pc, copied_frame, nframes,
              nupdates>>

envVars == <<sinks_open, outputs_open, out_active, sink_stopped, released, double_free>>

histVars == <<enq, deq, flushed, sends, fail_pending>>

vars == <<cfgVars, flagVars, sessVars, ctlVars, hostVars, envVars, histVars,
          video_frames>>

Ids(q) == {q[i].id : i \in 1 .. Len(q)}

\* make_filename: the path is built from directory, format and extension.
make_filename(dir, fmt, ext) == <<dir, fmt, ext>>

\* A faulty Signalled: the signal wakes nobody.
SignalledNever(p) == p

\* pthread_cond_signal: the controller, if it waits, leaves pthread_cond_wait
\* and goes for the mutex again.
Signalled(p) ==
    CASE p = "A_wait" -> "A_lock"
      [] p = "B_wait" -> "B_lock"
      [] p = "C_wait" -> "C_lock"
      [] OTHER -> p

\* get_string: whether the stored string changes.
get_string(old, value) == old # value

(***************************************************************************)
(* async_record_create (lines 444-460): update with the initial settings   *)
(* (every string is new, so failed is cleared and need_restart set), then  *)
(* the thread is created and enabled read from the source.                 *)
(***************************************************************************)
Init ==
    /\ directory = "dirA" /\ filename_format \in Fmts /\ extension \in Exts
    /\ overwrite_timestamp = FALSE
    /\ video_frames = <<>>
    /\ output = FALSE /\ video_output = FALSE
    /\ last_video_ns = Zero64 /\ video_frame_interval = 0
    /\ state = "idle"
    /\ enabled \in BOOLEAN
    /\ need_restart = TRUE /\ record = FALSE /\ close = FALSE
    /\ failed = FALSE /\ output_stopped = FALSE
    /\ mutex = "free" /\ pc = "outer" /\ filename = <<>> /\ frame = NoFrame
    /\ new_output = FALSE
    /\ host = "live" /\ tick_pc = "idle" /\ tick_old = FALSE
    /\ video_pc = "idle"
    /\ copied_frame = NoFrame /\ nframes = 0 /\ nupdates = 0
    /\ sinks_open = 0 /\ outputs_open = 0 /\ out_active = FALSE
    /\ sink_stopped = FALSE /\ released = {} /\ double_free = FALSE
    /\ enq = <<>> /\ deq = <<>> /\ flushed = {} /\ sends = <<>>
    /\ fail_pending = FALSE

(***************************************************************************)
(* The frame queue (circlebuf of frame pointers).                          *)
(***************************************************************************)
\* A faulty push_back: the frame goes to the front of the queue.
push_front(q, f) == <<f>> \o q

push_back(q, f) == Append(q, f)

peek_front(q) == Head(q)

pop_front(q) == Tail(q)

\* free_video_data (lines 348-360): every queued frame is popped and
\* destroyed (a copied frame has refs = 0, so the decrement gives -1).
FreeVideoData ==
    /\ video_frames' = <<>>
    /\ released' = released \cup Ids(video_frames)
    /\ double_free' = (double_free \/ Ids(video_frames) \cap released # {})
    /\ flushed' = flushed \cup Ids(video_frames)

(***************************************************************************)
(* The host's calls.  A call takes the mutex for a section that one step   *)
(* models; what it reads before locking is a step of its own.              *)
(***************************************************************************)
\* Whether update found a changed string (lines 423-425).
Changed(d, f, e) ==
    \/ get_string(directory, d)
    \/ get_string(filename_format, f)
    \/ get_string(extension, e)

\* A faulty RestartAfterUpdate: a change does not ask for a restart.
RestartNotRequested(changed) == need_restart

\* need_restart after update (lines 429-431).
RestartAfterUpdate(changed) == IF changed THEN TRUE ELSE need_restart

\* A faulty FailedAfterUpdate: update leaves the failure flag alone.
FailedKept(changed) == failed

\* failed after update (lines 429-430).
FailedAfterUpdate(changed) == IF changed THEN FALSE ELSE failed

\* async_record_update (lines 416-436).
AsyncRecordUpdate ==
    /\ host = "live" /\ mutex = "free" /\ nupdates < MaxUpdates
    /\ \E d \in Dirs, f \in Fmts, e \in Exts, ow \in BOOLEAN :
        LET changed == Changed(d, f, e) IN
        /\ directory' = d /\ filename_format' = f /\ extension' = e
        /\ overwrite_timestamp' = ow
        /\ failed' = FailedAfterUpdate(changed)
        /\ need_restart' = RestartAfterUpdate(changed)
        /\ pc' = IF changed THEN Signalled(pc) ELSE pc
        /\ fail_pending' = IF changed THEN FALSE ELSE fail_pending
    /\ nupdates' = nupdates + 1
    /\ UNCHANGED <<enabled, record, close, output_stopped, sessVars, mutex,
                   filename, frame, new_output, host, tick_pc, tick_old,
                   video_pc,
                   copied_frame, nframes, envVars, enq, deq, flushed, sends,
                   video_frames>>

\* on_enable_changed (lines 438-442): no lock.
OnEnableChanged ==
    /\ host = "live"
    /\ \E b \in BOOLEAN : enabled' = b
    /\ UNCHANGED <<cfgVars, need_restart, record, close, failed, output_stopped,
                   sessVars, ctlVars, hostVars, envVars, histVars, video_frames>>

\* async_record_tick, the test before the lock (line 467).
TickTest ==
    /\ host = "live" /\ tick_pc = "idle"
    /\ enabled # record
    /\ tick_pc' = "lock"
    /\ UNCHANGED <<cfgVars, flagVars, sessVars, ctlVars, host, tick_old,
                   video_pc, copied_frame, nframes, nupdates, envVars,
                   histVars, video_frames>>

\* async_record_tick takes the mutex and copies enabled (lines 468-469).
TickLocked ==
    /\ tick_pc = "lock" /\ mutex = "free"
    /\ mutex' = "tick"
    /\ record' = enabled
    /\ tick_old' = record
    /\ tick_pc' = "flush"
    /\ UNCHANGED <<cfgVars, enabled, need_restart, close, failed, output_stopped,
                   sessVars, pc, filename, frame, new_output, host, video_pc,
                   copied_frame, nframes, nupdates, envVars, histVars,
                   video_frames>>

\* async_record_tick reads enabled again, which on_enable_changed writes
\* without the mutex, flushes, signals and unlocks (lines 470-473).
TickFlush ==
    /\ tick_pc = "flush"
    /\ IF enabled THEN FreeVideoData
       ELSE UNCHANGED <<video_frames, released, double_free, flushed>>
    /\ pc' = Signalled(pc)
    /\ mutex' = "free"
    /\ tick_pc' = "idle" /\ tick_old' = FALSE
    /\ UNCHANGED <<cfgVars, flagVars, sessVars, filename, frame, new_output,
                   host, video_pc, copied_frame, nframes, nupdates, sinks_open,
                   outputs_open, out_active, sink_stopped, enq, deq, sends,
                   fail_pending>>

\* The timestamp of the copy (lines 487-488).
CopiedTimestamp(ts, now) ==
    IF overwrite_timestamp \/ ts = Zero64 THEN now ELSE ts

\* async_record_video up to the lock (lines 481-488): a frame with a size is
\* copied while record is set.  The frame's timestamp is drawn from stamps
\* and obs_get_video_frame_time's answer from clock.
VideoCopy(stamps, clock, max) ==
    /\ host = "live" /\ video_pc = "idle" /\ nframes < max
    /\ \E ts \in stamps, now \in clock, sized \in BOOLEAN :
        IF record /\ sized
        THEN /\ copied_frame' = [id |-> nframes + 1,
                                 timestamp |-> CopiedTimestamp(ts, now)]
             /\ nframes' = nframes + 1
             /\ video_pc' = "push"
        ELSE UNCHANGED <<copied_frame, nframes, video_pc>>
    /\ UNCHANGED <<cfgVars, flagVars, sessVars, ctlVars, host, tick_pc,
                   tick_old, nupdates, envVars, histVars, video_frames>>

\* async_record_video, the locked section (lines 490-493).
VideoPush ==
    /\ video_pc = "push" /\ mutex = "free"
    /\ video_frames' = push_back(video_frames, copied_frame)
    /\ enq' = Append(enq, copied_frame.id)
    /\ pc' = Signalled(pc)
    /\ video_pc' = "idle" /\ copied_frame' = NoFrame
    /\ UNCHANGED <<cfgVars, flagVars, sessVars, mutex, filename, frame,
                   new_output, host, tick_pc, tick_old, nframes, nupdates,
                   envVars,
                   deq, flushed, sends, fail_pending>>

\* async_record_remove (lines 499-514); the host calls it once.
AsyncRecordRemove ==
    /\ host = "live" /\ mutex = "free" /\ ~close
    /\ close' = TRUE
    /\ FreeVideoData
    /\ pc' = Signalled(pc)
    /\ UNCHANGED <<cfgVars, enabled, need_restart, record, failed,
                   output_stopped, sessVars, mutex, filename, frame, new_output,
                   hostVars, sinks_open, outputs_open, out_active, sink_stopped,
                   enq, deq, sends, fail_pending>>

\* async_record_destroy up to pthread_join (lines 387-390).  The host
\* destroys the filter when no other call on it is in progress.
DestroySignal ==
    /\ host = "live" /\ tick_pc = "idle" /\ video_pc = "idle" /\ mutex = "free"
    /\ close' = TRUE
    /\ pc' = Signalled(pc)
    /\ host' = "join"
    /\ UNCHANGED <<cfgVars, enabled, need_restart, record, failed,
                   output_stopped, sessVars, mutex, filename, frame, new_output,
                   tick_pc, tick_old, video_pc, copied_frame, nframes,
                   nupdates, envVars, histVars, video_frames>>

\* async_record_destroy from the return of pthread_join (lines 392-402).
DestroyJoin ==
    /\ host = "join" /\ pc = "done"
    /\ FreeVideoData
    /\ host' = "destroyed"
    /\ UNCHANGED <<cfgVars, flagVars, sessVars, ctlVars, tick_pc, tick_old,
                   video_pc, copied_frame, nframes, nupdates, sinks_open,
                   outputs_open,
                   out_active, sink_stopped, enq, deq, sends, fail_pending>>

\* cb_stopped (lines 118-128), on the backend's thread and without the
\* mutex: a started output raises "stop" once.
CbStopped ==
    /\ out_active
    /\ \E code \in {"success", "error"} :
        /\ failed' = (failed \/ code # "success")
        /\ fail_pending' = (fail_pending \/ code # "success")
    /\ output_stopped' = TRUE
    /\ pc' = Signalled(pc)
    /\ out_active' = FALSE
    /\ UNCHANGED <<cfgVars, enabled, need_restart, record, close, sessVars,
                   mutex, filename, frame, new_output, hostVars, sinks_open,
                   outputs_open, sink_stopped, released, double_free, enq, deq,
                   flushed, sends, video_frames>>

\* The sink stops: video_output_stopped answers true from then on.
SinkStops ==
    /\ video_output /\ ~sink_stopped
    /\ sink_stopped' = TRUE
    /\ UNCHANGED <<cfgVars, flagVars, sessVars, ctlVars, hostVars, sinks_open,
                   outputs_open, out_active, released, double_free, histVars,
                   video_frames>>

(***************************************************************************)
(* send_video (lines 201-269) on frame f; locked is the answer of          *)
(* video_output_lock_frame.  The result is the new last_video_ns and the   *)
(* record of the call: what became of the frame, and the count and         *)
(* timestamp handed to video_output_lock_frame.                            *)
(***************************************************************************)
SendVideo(f, locked) ==
    IF ~video_output \/ sink_stopped
    THEN [last |-> last_video_ns,
          call |-> [id |-> f.id, in |-> f.timestamp, result |-> "unavailable",
                    count |-> 0, ts |-> Zero64, before |-> last_video_ns]]
    ELSE LET r == Retime(last_video_ns, video_frame_interval, f.timestamp)
             result == IF last_video_ns # Zero64 /\ r.count <= 0 THEN "dropped"
                       ELSE IF locked THEN "presented" ELSE "lockfail"
         IN  [last |-> r.last,
              call |-> [id |-> f.id, in |-> f.timestamp, result |-> result,
                        count |-> r.count, ts |-> r.ts,
                        before |-> last_video_ns]]

(***************************************************************************)
(* The controller thread, async_record_thread (lines 323-339).             *)
(***************************************************************************)
\* while (!s->close) (line 328).
ThreadLoop ==
    /\ pc = "outer"
    /\ pc' = IF close THEN "done" ELSE "A_lock"
    /\ UNCHANGED <<cfgVars, flagVars, sessVars, mutex, filename, frame,
                   new_output, hostVars, envVars, histVars, video_frames>>

\* thread_start_loop takes the mutex: on entry (line 132), on return from
\* pthread_cond_wait (line 143), after a failed create_video_output (line
\* 161) or a failed obs_output_start (line 192).
StartLock ==
    /\ pc = "A_lock" /\ mutex = "free"
    /\ mutex' = "thread" /\ pc' = "A_top"
    /\ UNCHANGED <<cfgVars, flagVars, sessVars, filename, frame, new_output,
                   hostVars, envVars, histVars, video_frames>>

\* A faulty StartBlocked: the failure flag is not looked at.
StartBlockedOnRecord == ~record

\* The test that keeps thread_start_loop waiting (line 142).
StartBlocked == ~record \/ failed

\* thread_start_loop, one pass of the loop with the mutex held (lines
\* 135-157): leave on close, wait, or snapshot the settings and go on.
StartTop ==
    /\ pc = "A_top"
    /\ mutex' = "free"
    /\ IF close
       THEN /\ state' = "idle" /\ pc' = "done"
            /\ UNCHANGED <<filename, need_restart>>
       ELSE IF StartBlocked
       THEN /\ state' = "idle" /\ pc' = "A_wait"
            /\ UNCHANGED <<filename, need_restart>>
       ELSE /\ state' = "starting" /\ pc' = "B_lock"
            /\ filename' = make_filename(directory, filename_format, extension)
            /\ need_restart' = FALSE
    /\ UNCHANGED <<cfgVars, enabled, record, close, failed, output_stopped,
                   output, video_output, last_video_ns, video_frame_interval,
                   frame, new_output, hostVars, envVars, histVars, video_frames>>

\* peek_first_frame takes the mutex (line 65, or back from the wait, line 73).
PeekLock ==
    /\ pc = "B_lock" /\ mutex = "free"
    /\ mutex' = "thread" /\ pc' = "B_top"
    /\ UNCHANGED <<cfgVars, flagVars, sessVars, filename, frame, new_output,
                   hostVars, envVars, histVars, video_frames>>

\* The test that makes peek_first_frame give up (line 69).
PeekGivesUp == close \/ ~record \/ failed

\* peek_first_frame, one pass of the loop (lines 67-87).  With no frame
\* create_video_output fails and thread_start_loop takes the lock again.
PeekTop ==
    /\ pc = "B_top"
    /\ mutex' = "free"
    /\ IF PeekGivesUp
       THEN pc' = "A_lock" /\ frame' = frame
       ELSE IF Len(video_frames) = 0
       THEN pc' = "B_wait" /\ frame' = frame
       ELSE pc' = "B_open" /\ frame' = peek_front(video_frames)
    /\ UNCHANGED <<cfgVars, flagVars, sessVars, filename, new_output,
                   hostVars, envVars, histVars, video_frames>>

\* create_video_output after the peek (lines 96-115): video_output_open
\* opens the sink or fails; a failure leaves s->video_output as it was and
\* sets no flag (lines 159-163).
OpenSink ==
    /\ pc = "B_open"
    /\ \E ok \in BOOLEAN, interval \in Intervals :
        IF ok
        THEN /\ video_output' = TRUE /\ sinks_open' = sinks_open + 1
             /\ sink_stopped' = FALSE
             /\ last_video_ns' = Zero64 /\ video_frame_interval' = interval
             /\ sends' = <<>>
             /\ pc' = "B_create"
             /\ UNCHANGED fail_pending
        ELSE /\ pc' = "A_lock"
             /\ fail_pending' = TRUE
             /\ UNCHANGED <<video_output, sinks_open, sink_stopped,
                            last_video_ns, video_frame_interval, sends>>
    /\ frame' = NoFrame
    /\ UNCHANGED <<cfgVars, flagVars, output, state, mutex, filename,
                   new_output, hostVars, outputs_open, out_active, released,
                   double_free, enq, deq, flushed, video_frames>>

\* obs_output_create (lines 172-181).
CreateOutput ==
    /\ pc = "B_create"
    /\ \E ok \in BOOLEAN :
        IF ok
        THEN /\ new_output' = TRUE /\ outputs_open' = outputs_open + 1
             /\ output_stopped' = FALSE
             /\ pc' = "B_start"
             /\ UNCHANGED fail_pending
        ELSE /\ pc' = "F_lock"
             /\ fail_pending' = TRUE
             /\ UNCHANGED <<new_output, outputs_open, output_stopped>>
    /\ UNCHANGED <<cfgVars, enabled, need_restart, record, close, failed,
                   sessVars, mutex, filename, frame, hostVars, sinks_open,
                   out_active, sink_stopped, released, double_free, enq, deq,
                   flushed, sends, video_frames>>

\* After a failed obs_output_create: lock, failed = true, continue (lines
\* 176-178).
CreateFailed ==
    /\ pc = "F_lock" /\ mutex = "free"
    /\ mutex' = "thread" /\ failed' = TRUE /\ pc' = "A_top"
    /\ UNCHANGED <<cfgVars, enabled, need_restart, record, close,
                   output_stopped, sessVars, filename, frame, new_output,
                   hostVars, envVars, histVars, video_frames>>

\* obs_output_start (lines 182-197): on failure the output is released and
\* failed set (before the lock is taken); on success s->output is set.
StartOutput ==
    /\ pc = "B_start"
    /\ \E ok \in BOOLEAN :
        IF ok
        THEN /\ output' = TRUE /\ out_active' = TRUE
             /\ pc' = "C_lock"
             /\ UNCHANGED <<outputs_open, failed, fail_pending>>
        ELSE /\ outputs_open' = outputs_open - 1
             /\ failed' = TRUE /\ fail_pending' = TRUE
             /\ pc' = "A_lock"
             /\ UNCHANGED <<output, out_active>>
    /\ new_output' = FALSE
    /\ UNCHANGED <<cfgVars, enabled, need_restart, record, close,
                   output_stopped, video_output, last_video_ns,
                   video_frame_interval, state, mutex, filename, frame,
                   hostVars, sinks_open, sink_stopped, released, double_free,
                   enq, deq, flushed, sends, video_frames>>

\* thread_main_loop takes the mutex (line 273, back from the wait at line
\* 281, or after a frame, line 294).
MainLock ==
    /\ pc = "C_lock" /\ mutex = "free"
    /\ mutex' = "thread" /\ pc' = "C_top"
    /\ UNCHANGED <<cfgVars, flagVars, sessVars, filename, frame, new_output,
                   hostVars, envVars, histVars, video_frames>>

\* The test that ends thread_main_loop (line 276).
MainLoopBreak == close \/ ~record \/ need_restart \/ output_stopped

\* thread_main_loop, one pass of the loop with the mutex held (lines
\* 275-289): break, find the queue empty, or pop the oldest frame.
MainTop ==
    /\ pc = "C_top"
    /\ state' = "running"
    /\ IF MainLoopBreak
       THEN /\ mutex' = "free" /\ pc' = "close"
            /\ UNCHANGED <<frame, video_frames, deq>>
       ELSE IF Len(video_frames) = 0
       THEN /\ pc' = "C_prewait"
            /\ UNCHANGED <<mutex, frame, video_frames, deq>>
       ELSE /\ frame' = peek_front(video_frames)
            /\ video_frames' = pop_front(video_frames)
            /\ deq' = Append(deq, peek_front(video_frames).id)
            /\ mutex' = "free" /\ pc' = "C_send"
    /\ UNCHANGED <<cfgVars, flagVars, output, video_output, last_video_ns,
                   video_frame_interval, filename, new_output, hostVars,
                   envVars, enq, flushed, sends, fail_pending>>

\* pthread_cond_wait in thread_main_loop (line 281).  The mutex is held
\* from the test at line 276 to here, but cb_stopped takes no mutex, so its
\* write and its signal can fall between the two: a step of its own.
MainWait ==
    /\ pc = "C_prewait"
    /\ mutex' = "free" /\ pc' = "C_wait"
    /\ UNCHANGED <<cfgVars, flagVars, sessVars, filename, frame, new_output,
                   hostVars, envVars, histVars, video_frames>>

\* send_video and obs_source_frame_destroy (lines 291-292).
SendFrame ==
    /\ pc = "C_send"
    /\ \E locked \in BOOLEAN :
        LET r == SendVideo(frame, locked) IN
        /\ last_video_ns' = r.last
        /\ sends' = Append(sends, r.call)
    /\ released' = released \cup {frame.id}
    /\ double_free' = (double_free \/ frame.id \in released)
    /\ frame' = NoFrame
    /\ pc' = "C_lock"
    /\ UNCHANGED <<cfgVars, flagVars, output, video_output,
                   video_frame_interval, state, mutex, filename, new_output,
                   hostVars, sinks_open, outputs_open, out_active,
                   sink_stopped, enq, deq, flushed, fail_pending, video_frames>>

\* thread_close_loop (lines 299-321).  The released output raises no
\* "stop" any more.
CloseLoop ==
    /\ pc = "close"
    /\ IF ~output
       THEN UNCHANGED <<output, video_output, outputs_open, sinks_open,
                        out_active, output_stopped>>
       ELSE /\ out_active' = FALSE
            /\ output_stopped' = output_stopped
            /\ outputs_open' = outputs_open - 1
            /\ sinks_open' = IF video_output THEN sinks_open - 1 ELSE sinks_open
            /\ video_output' = FALSE
            /\ output' = FALSE
    /\ pc' = "outer"
    /\ UNCHANGED <<cfgVars, enabled, need_restart, record, close, failed,
                   last_video_ns, video_frame_interval, state, mutex, filename,
                   frame, new_output, hostVars, sink_stopped, released,
                   double_free, histVars, video_frames>>

Controller ==
    \/ ThreadLoop \/ StartLock \/ StartTop \/ PeekLock \/ PeekTop
    \/ OpenSink \/ CreateOutput \/ CreateFailed \/ StartOutput
    \/ MainLock \/ MainTop \/ MainWait \/ SendFrame \/ CloseLoop

VideoCopyLife == VideoCopy(TsLife, ClockLife, MaxFrames)

Next ==
    \/ Controller
    \/ AsyncRecordUpdate \/ OnEnableChanged
    \/ TickTest \/ TickLocked \/ TickFlush
    \/ VideoCopyLife \/ VideoPush \/ AsyncRecordRemove
    \/ DestroySignal \/ DestroyJoin
    \/ CbStopped

Spec == Init /\ [][Next]_vars

(***************************************************************************)
(* Fairness: the scheduler runs the controller thread whenever it can      *)
(* take a step (external calls return) and lets it have the mutex when     *)
(* the mutex is free again and again; destroy goes on once pthread_join    *)
(* can return, and a tick that holds the mutex gets to unlock it.  The     *)
(* host's calls and the backend's "stop" are not forced to happen.         *)
(***************************************************************************)
VideoCopyLive == VideoCopy(TsLife, ClockLife, MaxLiveFrames)

NextLive ==
    \/ Controller
    \/ AsyncRecordUpdate \/ OnEnableChanged
    \/ TickTest \/ TickLocked \/ TickFlush
    \/ VideoCopyLive \/ VideoPush \/ AsyncRecordRemove
    \/ DestroySignal \/ DestroyJoin
    \/ CbStopped \/ SinkStops

FairSpec ==
    /\ Init /\ [][NextLive]_vars
    /\ SF_vars(Controller) /\ WF_vars(DestroyJoin) /\ WF_vars(TickFlush)

(***************************************************************************)
(* The retiming engine alone: a session has just been started (the state   *)
(* thread_start_loop returns true in, its first frame still queued), the   *)
(* host delivers frames and the controller drains them.                    *)
(***************************************************************************)
InitRetime ==
    /\ directory = "dirA" /\ filename_format \in Fmts /\ extension \in Exts
    /\ overwrite_timestamp = FALSE
    /\ \E ts \in TsRetime, now \in ClockRetime :
        video_frames = <<[id |-> 1, timestamp |-> CopiedTimestamp(ts, now)]>>
    /\ output = TRUE /\ video_output = TRUE
    /\ last_video_ns = Zero64 /\ video_frame_interval \in Intervals
    /\ state = "starting"
    /\ enabled = TRUE
    /\ need_restart = FALSE /\ record = TRUE /\ close = FALSE
    /\ failed = FALSE /\ output_stopped = FALSE
    /\ mutex = "free" /\ pc = "C_lock"
    /\ filename = make_filename(directory, filename_format, extension)
    /\ frame = NoFrame /\ new_output = FALSE
    /\ host = "live" /\ tick_pc = "idle" /\ tick_old = FALSE
    /\ video_pc = "idle"
    /\ copied_frame = NoFrame /\ nframes = 1 /\ nupdates = 0
    /\ sinks_open = 1 /\ outputs_open = 1 /\ out_active = TRUE
    /\ sink_stopped = FALSE /\ released = {} /\ double_free = FALSE
    /\ enq = <<1>> /\ deq = <<>> /\ flushed = {} /\ sends = <<>>
    /\ fail_pending = FALSE

VideoCopyRetime == VideoCopy(TsRetime, ClockRetime, MaxRetimeFrames)

NextRetime ==
    \/ VideoCopyRetime \/ VideoPush
    \/ MainLock \/ MainTop \/ MainWait \/ SendFrame

SpecRetime == InitRetime /\ [][NextRetime]_vars

(***************************************************************************)
(* Properties of the retiming engine, over sends, the calls of send_video  *)
(* in the current session.                                                 *)
(***************************************************************************)
\* video_output_lock_frame was called for the frame (a write slot asked for).
Called(c) == c.result \in {"presented", "lockfail"}

LockCalls == SelectSeq(sends, Called)

\* The sink took what send_video offered.
Handled(c) == c.result \in {"presented", "dropped"}

Presented(c, n) == c.result = "presented" /\ c.count = n

\* The first frames of the session carried the timestamps ins (ns), with a
\* period of 16.67 ms, and the sink took what was offered.
Scenario(ins) ==
    /\ video_frame_interval = 16670000
    /\ Len(sends) >= Len(ins)
    /\ \A i \in 1 .. Len(ins) : sends[i].in = U64(ins[i]) /\ Handled(sends[i])

\* floor((t1 - t0) / period) in uint64_t.
Quotient(t0, t1) == Div64(Sub64(t1, t0), video_frame_interval)

\* t1 - t0 is more than one period.
GapOverPeriod(t0, t1) ==
    Less64(t0, t1) /\ Less64(U64(video_frame_interval), Sub64(t1, t0))

FirstTwoHandled ==
    Len(sends) >= 2 /\ sends[1].result = "presented" /\ Handled(sends[2])

\* C4 as claimed: within a session the emission timestamps handed to
\* video_output_lock_frame never decrease, and each is at least the previous
\* one plus the previous tick count times the period.
EmissionsMonotonic ==
    \A i \in 2 .. Len(LockCalls) : Leq64(LockCalls[i - 1].ts, LockCalls[i].ts)

EmissionsDisjoint ==
    \A i \in 2 .. Len(LockCalls) :
        Leq64(Add64(LockCalls[i - 1].ts,
                    Mul64(FromInt(LockCalls[i - 1].count), video_frame_interval)),
              LockCalls[i].ts)

\* C4: emission timestamps never decrease and presentations never overlap.
EmissionsOrdered == EmissionsMonotonic /\ EmissionsDisjoint

\* C5 as claimed: a second frame more than a period after the first is
\* presented with tick count floor((t1 - t0) / period); frames at 0 and 50 ms
\* give tick count 3.
GapFillAsClaimed ==
    FirstTwoHandled =>
        LET t0 == sends[1].in
            t1 == sends[2].in
        IN  /\ GapOverPeriod(t0, t1) =>
                /\ sends[2].result = "presented"
                /\ sends[2].count > 0
                /\ FromInt(sends[2].count) = Quotient(t0, t1)
            /\ Scenario(<<0, 50000000>>) => Presented(sends[2], 3)

\* C5 amended: with a nonzero first timestamp the second frame gets the
\* quotient floor((t1 - t0) / period) cut to a signed 32-bit int as its tick
\* count: it is presented once with that count when the count is positive
\* (which it is, and equal to the quotient, below 2^31) and dropped
\* otherwise.  Frames at 16.67 ms and 66.68 ms give tick count 3; frames at
\* 0 and 50 ms give the second frame tick count 1, as 0 still means that no
\* frame was emitted.
GapFill ==
    /\ \A i, j \in 1 .. Len(sends) : sends[i].id = sends[j].id => i = j
    /\ FirstTwoHandled =>
        LET t0 == sends[1].in
            t1 == sends[2].in
            q  == Quotient(t0, t1)
        IN  /\ (t0 # Zero64 /\ GapOverPeriod(t0, t1)) =>
                /\ sends[2].count = CastInt(q)
                /\ sends[2].result =
                       (IF CastInt(q) > 0 THEN "presented" ELSE "dropped")
                /\ (\A k \in 1 .. Digits64 - DigitsInt : q[k] = 0)
                   /\ q[Digits64 - DigitsInt + 1] < 8
                      => sends[2].count > 0 /\ FromInt(sends[2].count) = q
            /\ Scenario(<<16670000, 66680000>>) => Presented(sends[2], 3)
            /\ Scenario(<<0, 50000000>>) => Presented(sends[2], 1)

GapFillWitness ==
    /\ Scenario(<<16670000, 66680000>>)
    /\ Presented(sends[2], 3)

\* C6 as claimed: frames at 0, 16.67 ms and 33.3 ms with a period of
\* 16.67 ms are each presented with tick count 1.
SixtyFpsAsClaimed ==
    Scenario(<<0, 16670000, 33300000>>) =>
        \A i \in 1 .. 3 : Presented(sends[i], 1)

\* C6 amended: of frames at 0, 16.67 ms and 33.3 ms the first two are
\* presented with tick count 1 and the third, 16.63 ms after the second, is
\* dropped with count 0; with the third frame at 33.34 ms the tick counts
\* are [1, 1, 1].
SixtyFps ==
    /\ Scenario(<<0, 16670000, 33300000>>) =>
        /\ Presented(sends[1], 1) /\ Presented(sends[2], 1)
        /\ sends[3].result = "dropped" /\ sends[3].count = 0
    /\ Scenario(<<0, 16670000, 33340000>>) =>
        \A i \in 1 .. 3 : Presented(sends[i], 1)

SixtyFpsWitness ==
    /\ Scenario(<<0, 16670000, 33300000>>)
    /\ sends[3].result = "dropped"

\* Every frame of the session came exactly one period after the one before.
EvenlySpaced ==
    \A i \in 2 .. Len(sends) :
        sends[i].in = Add64(sends[i - 1].in, U64(video_frame_interval))

\* C7: when the frames of a session are spaced by exactly one tick period,
\* every frame is offered to the sink with tick count 1 and with its own
\* timestamp, so the emission timestamps step by the period; none is dropped.
EvenSpacing ==
    EvenlySpaced =>
        \A i \in 1 .. Len(sends) :
            \/ sends[i].result = "unavailable"
            \/ /\ Called(sends[i])
               /\ sends[i].count = 1
               /\ sends[i].ts = sends[i].in

EvenSpacingWitness ==
    /\ Len(sends) = 3 /\ EvenlySpaced
    /\ \A i \in 1 .. 3 : Presented(sends[i], 1)
    /\ sends[3].ts = Add64(sends[1].ts, U64(2 * video_frame_interval))

\* C8 as claimed: a frame after the first whose tick count is <= 0 is not
\* presented and does not move last_video_ns backwards (ts is last_video_ns
\* after the call); frames at 0, 16.67 ms, 16.70 ms drop the third, count 0.
DropRule ==
    /\ \A i \in 1 .. Len(sends) :
        (sends[i].result # "unavailable" /\ sends[i].before # Zero64
            /\ sends[i].count <= 0)
        => /\ sends[i].result = "dropped"
           /\ Leq64(sends[i].before, sends[i].ts)
    /\ Scenario(<<0, 16670000, 16700000>>) =>
        sends[3].result = "dropped" /\ sends[3].count = 0

(***************************************************************************)
(* Properties of the controller's life cycle.                              *)
(***************************************************************************)
\* C1: once destroy has set close and signalled the condition variable (it
\* waits in pthread_join), the controller thread exits and destroy returns.
ShutdownLiveness == (host = "join") ~> (host = "destroyed" /\ pc = "done")

ShutdownWitness == host = "destroyed" /\ pc = "done" /\ Len(deq) > 0

Enqueued == {enq[i] : i \in 1 .. Len(enq)}

\* C2 as claimed: when the controller thread has exited no output and no
\* video sink is open, and when destroy has returned every frame that was
\* enqueued has been released, none of them twice.
ThreadLeavesNothingOpen == pc = "done" => sinks_open = 0 /\ outputs_open = 0

FramesReleasedOnce ==
    host = "destroyed" => Enqueued \subseteq released /\ ~double_free

\* C2: shutdown leaks no output, no sink and no frame.
NoLeakAtShutdown == ThreadLeavesNothingOpen /\ FramesReleasedOnce

\* The enqueued frames that no flush (tick on enable, remove, destroy) took.
NotFlushed(id) == id \notin flushed

QueuedIds == [i \in 1 .. Len(video_frames) |-> video_frames[i].id]

\* C3: the frames the controller dequeued, followed by those still queued,
\* are the enqueued frames that no flush took, in the order of their
\* enqueueing; and each dequeued frame is the one send_video is about to get
\* or was handed to it and released.
QueueFifo ==
    /\ deq \o QueuedIds = SelectSeq(enq, NotFlushed)
    /\ \A i \in 1 .. Len(deq) :
        /\ NotFlushed(deq[i])
        /\ (pc = "C_send" /\ frame.id = deq[i]) \/ deq[i] \in released

QueueFifoWitness ==
    /\ Len(deq) >= 2 /\ deq = enq /\ flushed = {}
    /\ pc = "C_send" /\ Len(sends) = 1

\* The path the current settings give.
CurrentFilename == make_filename(directory, filename_format, extension)

\* A session (its output created or started) whose path was built from
\* settings that an update has replaced since.
Stale == (output \/ new_output) /\ filename # CurrentFilename

\* A change of the settings in async_record_update.
SettingsChange ==
    <<directory, filename_format, extension>>' #
        <<directory, filename_format, extension>>

\* The controller may start a session: nothing told it to stop or to wait.
Stopped == close \/ ~record \/ failed

\* C9: an update that changes the settings leaves the session as it is
\* (output, sink and the controller's position are untouched); a session
\* that outlived such an update has need_restart set, and the controller
\* closes it; every start builds the path from the settings of that moment;
\* and after a stale session the controller begins a start with the new
\* settings unless close, a cleared record or failed holds it back.
RestartOnChange ==
    /\ [](Stale => need_restart)
    /\ [][SettingsChange =>
            /\ UNCHANGED <<output, video_output, outputs_open, sinks_open,
                           out_active, state, video_frames>>
            /\ pc' = Signalled(pc)]_vars
    /\ [][(pc = "A_top" /\ pc' = "B_lock") =>
            (state' = "starting" /\ ~need_restart'
             /\ filename' = make_filename(directory', filename_format',
                                          extension'))]_vars
    /\ Stale ~> ~Stale
    /\ Stale ~> ((pc = "B_lock" /\ filename = CurrentFilename) \/ Stopped)

RestartWitness ==
    /\ Stale /\ output /\ need_restart
    /\ pc = "C_lock" /\ Len(deq) > 0

\* The controller is attempting a session start (it looks for the first
\* frame, opens the sink, creates or starts the output).
Attempting == pc \in {"B_lock", "B_top", "B_wait", "B_open", "B_create", "B_start"}

\* C10 as claimed: from a failed start (sink open, output create, output
\* start) or a "stop" with an error code until an update changes the
\* settings, the controller attempts no start, and in Phase A it finds
\* failed set.
NoTightRetry ==
    fail_pending =>
        /\ ~Attempting
        /\ pc \in {"A_top", "A_wait"} => failed

(***************************************************************************)
(* Failure handling, flushes, locking and ownership.                       *)
(***************************************************************************)
\* A step of async_record_update.
UpdateStep == nupdates' # nupdates

TickRelease == tick_pc = "flush" /\ tick_pc' = "idle"

\* The tick in progress has switched record from false to true (line 469).
SwitchedOn == ~tick_old /\ record

\* The tick in progress has switched record from true to false (line 469).
SwitchedOff == tick_old /\ ~record

\* C12 as claimed: when a tick has switched recording from disabled to
\* enabled, the queue is empty at the moment the tick releases the mutex.
StartsClean == [][(TickRelease /\ SwitchedOn) => video_frames' = <<>>]_vars

\* The step of async_record_remove.
RemoveStep == close' /\ ~close /\ host' = "live"

\* The queue is emptied and its frames are released, none having been sent.
Drained ==
    /\ video_frames' = <<>>
    /\ Ids(video_frames) \subseteq released'
    /\ Ids(video_frames) \subseteq flushed'

DrainOnRemove == [][RemoveStep => Drained]_vars

DrainOnSwitchOff == [][(TickRelease /\ SwitchedOff) => Drained]_vars

\* C13 as claimed: the tick that switches recording off and remove both
\* leave the queue empty, its frames released without being presented.
DrainOnDisable == DrainOnRemove /\ DrainOnSwitchOff

PhaseC == {"C_lock", "C_top", "C_prewait", "C_wait", "C_send"}

\* C15 as claimed: once the stop callback has fired while the controller is
\* in Phase C, the controller leaves Phase C for the teardown, whatever the
\* other threads do or leave undone.
StopNoticed == (output_stopped /\ pc \in PhaseC) ~> (pc \notin PhaseC)


controlFlags == <<record, close, need_restart, failed, output_stopped>>

\* The steps that write a control flag between pthread_mutex_lock and
\* pthread_mutex_unlock.
LockedWrite ==
    \/ AsyncRecordUpdate \/ TickLocked \/ AsyncRecordRemove \/ DestroySignal
    \/ StartTop \/ CreateFailed

\* C16 as claimed: every step that changes record, close, need_restart,
\* failed or output_stopped is made by a thread that holds the mutex.
LockDiscipline == [][controlFlags' # controlFlags => LockedWrite]_vars


\* C17 as claimed: while the controller is in Phase A no output handle and
\* no video sink is open, and never more than one sink is open.
NestedResources ==
    /\ pc \in {"A_lock", "A_top", "A_wait"} =>
          (outputs_open = 0 /\ sinks_open = 0)
    /\ sinks_open <= 1


\* C18 as claimed: no frame is released twice, a queued frame is not a
\* released one, the frame the controller popped is its own, and the frame
\* that peek_first_frame returned is still queued and unreleased while
\* create_video_output reads it.
FrameOwnership ==
    /\ ~double_free
    /\ Ids(video_frames) \cap released = {}
    /\ pc = "C_send" =>
          (frame.id \notin Ids(video_frames) /\ frame.id \notin released)
    /\ pc = "B_open" =>
          (frame.id \in Ids(video_frames) /\ frame.id \notin released)


\* The step of thread_start_loop that calls make_filename (line 150).
MakesFilename == pc = "A_top" /\ pc' = "B_lock"

\* The controller's calls that the claim lists as potentially slow.
SlowWork ==
    \/ MakesFilename
    \/ OpenSink \/ CreateOutput \/ StartOutput \/ CloseLoop \/ SendFrame

\* C19 as claimed: the controller does not hold the mutex in any step that
\* generates the filename, opens the sink, creates or starts the output,
\* tears the session down or sends a frame.
SlowWorkUnlocked == [][SlowWork => mutex # "thread"]_vars


\* C20 as claimed: a queue that holds a frame gets empty again (the
\* controller dequeues the frame or a flush releases it), whether or not
\* destroy is ever called.
QueueConsumed == (video_frames # <<>>) ~> (video_frames = <<>>)

=============================================================================
